---- MODULE Spec2Model ----
(***************************************************************************)
(* Weather / finance dashboard: the two-layer response cache (the          *)
(* Streamlit st.cache_data layer of dashboard/app.py in front of the       *)
(* cache files of OpenWeatherClient), the two transformers and the         *)
(* session state written by the two dashboard button handlers.             *)
(*                                                                         *)
(* Conventions.  A Python value that may be None is a sequence of length   *)
(* at most one: <<>> is None, <<v>> is the value v.  A dict is a function  *)
(* whose domain is the set of keys that are present.  Temperatures are     *)
(* integers in hundredths of a degree, times are integer seconds.          *)
(***************************************************************************)
EXTENDS Integers, Sequences, FiniteSets, TLC

\* ------------------------------------------------------------------ bounds
MaxNow == 601
NumCallers == 2

\* ------------------------------------------------------- program constants
DASH_TTL == 300
FILE_TTL == 600
KELVIN_OFFSET == 27315

\* --------------------------------------------------------- python helpers
None == <<>>
EmptyDict == [k \in {} |-> 0]

Some(v) == <<v>>

\* dict.get(key) with the default None
Get(d, k) == IF k \in DOMAIN d THEN <<d[k]>> ELSE None

\* dict.get(key, {})
GetDict(d, k) == IF k \in DOMAIN d THEN d[k] ELSE EmptyDict

\* truth value of an optional ordered dict: None and the empty one are falsy
TruthySeq(raw) == raw # None /\ Len(raw[1]) > 0

\* truth value of an optional dict: None and {} are falsy
Truthy(raw) == raw # None /\ DOMAIN raw[1] # {}

\* --------------------------------------------------------------- inputs
Deltas == {299, 300, 301}

Cities == {"London", "london"}

\* the city typed in the runs that also press the stock button
DashCities == {"London"}

\* str.lower() on the city names the model uses
Lower == [c \in Cities |-> "london"]

CacheFileNames == {Lower[c] : c \in Cities}

MainFull == [temp |-> 29015, feels_like |-> 28900, temp_min |-> 28800,
             temp_max |-> 29200, pressure |-> 1012, humidity |-> 60]

W_full == [name |-> "London", weather |-> <<[description |-> "clear sky"]>>,
           main |-> MainFull, wind |-> [speed |-> 350], dt |-> 1700000000]

W_nodt == [name |-> "London", weather |-> <<[description |-> "clear sky"]>>,
           main |-> MainFull, wind |-> [speed |-> 350]]

WeatherPayloads == {W_full, W_nodt, EmptyDict}

\* what the weather source can answer to one GET
WeatherResponses ==
    {[kind |-> "ok", data |-> p] : p \in WeatherPayloads}
        \cup {[kind |-> k, data |-> EmptyDict] : k \in {"http_error", "request_exception"}}

\* ----------------------------------------------------- json encode/decode
\* json.dump: the text of a dict, one token per key/value pair between braces
RECURSIVE PairTokens(_, _)
PairTokens(d, keys) ==
    IF keys = {} THEN <<>>
    ELSE LET k == CHOOSE x \in keys : TRUE
         IN <<<<k, d[k]>>>> \o PairTokens(d, keys \ {k})

json_dump(d) == <<<<"{", "">>>> \o PairTokens(d, DOMAIN d) \o <<<<"}", "">>>>

\* json.load: the dict of a text, or a decode error when the text is not the
\* complete text of one dict
json_load(text) ==
    LET n == Len(text)
        wellFormed ==
            /\ n >= 2
            /\ text[1][1] = "{"
            /\ text[n][1] = "}"
            /\ \A i \in 2..(n - 1) : text[i][1] \notin {"{", "}"}
            /\ \A i, j \in 2..(n - 1) : i # j => text[i][1] # text[j][1]
    IN IF wellFormed
       THEN [error |-> FALSE,
             data |-> [k \in {text[i][1] : i \in 2..(n - 1)} |->
                         text[CHOOSE i \in 2..(n - 1) : text[i][1] = k][2]]]
       ELSE [error |-> TRUE, data |-> EmptyDict]

\* ---------------------------------------------------- OpenWeatherClient
\* One sequential call of fetch_current_weather(city) at time t, the source
\* answering resp if it is asked.  Yields the returned value, the cache files
\* after the call, the number of GET requests and whether an exception left
\* the function.
\* fetch_current_weather that skips the cache check and always asks the source
fetch_current_weather_nocheck(files, city, t, resp) ==
    LET f == Lower[city]
    IN IF resp.kind = "ok"
       THEN [ret |-> Some(resp.data), raised |-> FALSE,
             files |-> [files EXCEPT ![f] =
                          Some([content |-> json_dump(resp.data), mtime |-> t])],
             http |-> 1]
       ELSE [ret |-> None, raised |-> FALSE, files |-> files, http |-> 1]

\* fetch_current_weather that treats a file of exactly ten minutes as fresh
fetch_current_weather_inclusive(files, city, t, resp) ==
    LET f == Lower[city]
        fresh == files[f] # None /\ t - files[f][1].mtime <= FILE_TTL
        loaded == json_load(files[f][1].content)
    IN IF fresh
       THEN [ret |-> IF loaded.error THEN None ELSE Some(loaded.data),
             raised |-> loaded.error, files |-> files, http |-> 0]
       ELSE IF resp.kind = "ok"
       THEN [ret |-> Some(resp.data), raised |-> FALSE,
             files |-> [files EXCEPT ![f] =
                          Some([content |-> json_dump(resp.data), mtime |-> t])],
             http |-> 1]
       ELSE [ret |-> None, raised |-> FALSE, files |-> files, http |-> 1]

\* fetch_current_weather that updates the stored dict with the new keys
\* instead of rewriting the file
fetch_current_weather_merge(files, city, t, resp) ==
    LET f == Lower[city]
        fresh == files[f] # None /\ t - files[f][1].mtime < FILE_TTL
        loaded == json_load(files[f][1].content)
        old == IF files[f] = None THEN EmptyDict ELSE loaded.data
    IN IF fresh
       THEN [ret |-> IF loaded.error THEN None ELSE Some(loaded.data),
             raised |-> loaded.error, files |-> files, http |-> 0]
       ELSE IF resp.kind = "ok"
       THEN [ret |-> Some(resp.data), raised |-> FALSE,
             files |-> [files EXCEPT ![f] =
                          Some([content |-> json_dump(resp.data @@ old), mtime |-> t])],
             http |-> 1]
       ELSE [ret |-> None, raised |-> FALSE, files |-> files, http |-> 1]

\* fetch_current_weather that opens the cache file for writing before the
\* request is made: a failed request leaves the file empty
fetch_current_weather_openfirst(files, city, t, resp) ==
    LET f == Lower[city]
        fresh == files[f] # None /\ t - files[f][1].mtime < FILE_TTL
        loaded == json_load(files[f][1].content)
    IN IF fresh
       THEN [ret |-> IF loaded.error THEN None ELSE Some(loaded.data),
             raised |-> loaded.error, files |-> files, http |-> 0]
       ELSE IF resp.kind = "ok"
       THEN [ret |-> Some(resp.data), raised |-> FALSE,
             files |-> [files EXCEPT ![f] =
                          Some([content |-> json_dump(resp.data), mtime |-> t])],
             http |-> 1]
       ELSE [ret |-> None, raised |-> FALSE,
             files |-> [files EXCEPT ![f] = Some([content |-> <<>>, mtime |-> t])],
             http |-> 1]

fetch_current_weather(files, city, t, resp) ==
    LET f == Lower[city]
        fresh == files[f] # None /\ t - files[f][1].mtime < FILE_TTL
        loaded == json_load(files[f][1].content)
    IN IF fresh
       THEN [ret |-> IF loaded.error THEN None ELSE Some(loaded.data),
             raised |-> loaded.error, files |-> files, http |-> 0]
       ELSE IF resp.kind = "ok"
       THEN [ret |-> Some(resp.data), raised |-> FALSE,
             files |-> [files EXCEPT ![f] =
                          Some([content |-> json_dump(resp.data), mtime |-> t])],
             http |-> 1]
       ELSE [ret |-> None, raised |-> FALSE, files |-> files, http |-> 1]

\* ------------------------------------------------------ st.cache_data
\* a st.cache_data whose ttl was given in the client's ten minutes
CacheDataLive_tenminutes(cache, key, t) ==
    cache[key] # None /\ t - cache[key][1].ts < FILE_TTL

\* an entry of a st.cache_data cache is live while its age is below the ttl
CacheDataLive(cache, key, t) ==
    cache[key] # None /\ t - cache[key][1].ts < DASH_TTL

\* body of get_cached_weather: any exception becomes None
get_cached_weather_body(files, city, t, resp) ==
    LET r == fetch_current_weather(files, city, t, resp)
    IN [ret |-> IF r.raised THEN None ELSE r.ret, files |-> r.files,
        http |-> r.http, calls |-> 1]

\* get_cached_weather(city) under @st.cache_data(ttl=300): the stored return
\* value while the entry is live, else the body runs and its return value,
\* whatever it is, is stored with the current time
get_cached_weather(cache, files, city, t, resp) ==
    IF CacheDataLive(cache, city, t)
    THEN [ret |-> cache[city][1].value, cache |-> cache, files |-> files,
          http |-> 0, calls |-> 0]
    ELSE LET b == get_cached_weather_body(files, city, t, resp)
         IN [ret |-> b.ret,
             cache |-> [cache EXCEPT ![city] = Some([value |-> b.ret, ts |-> t])],
             files |-> b.files, http |-> b.http, calls |-> b.calls]

\* ------------------------------------------------- transform_weather_data
kelvin_to_celsius(temp_k) ==
    IF temp_k # None /\ temp_k[1] # 0 THEN Some(temp_k[1] - KELVIN_OFFSET) ELSE None

\* datetime.utcfromtimestamp: the UTC day number and the second of that day
utcfromtimestamp(epoch) == [day |-> epoch \div 86400, second |-> epoch % 86400]

\* the dict literal of the try block; exc when building it raises
WeatherRow(d) ==
    LET conds == IF "weather" \in DOMAIN d THEN d["weather"] ELSE <<EmptyDict>>
        main == GetDict(d, "main")
        wind == GetDict(d, "wind")
    IN IF Len(conds) = 0 \/ Get(d, "dt") = None
       THEN [exc |-> TRUE, row |-> EmptyDict]
       ELSE [exc |-> FALSE,
             row |-> [city |-> Get(d, "name"),
                      description |-> Get(conds[1], "description"),
                      temp_c |-> kelvin_to_celsius(Get(main, "temp")),
                      feels_like_c |-> kelvin_to_celsius(Get(main, "feels_like")),
                      temp_min_c |-> kelvin_to_celsius(Get(main, "temp_min")),
                      temp_max_c |-> kelvin_to_celsius(Get(main, "temp_max")),
                      pressure |-> Get(main, "pressure"),
                      humidity |-> Get(main, "humidity"),
                      wind_speed |-> Get(wind, "speed"),
                      timestamp |-> utcfromtimestamp(d["dt"])]]

\* transform_weather_data without the try block around the dict literal
transform_weather_data_notry(raw_data) ==
    IF ~Truthy(raw_data)
    THEN [df |-> None, raised |-> FALSE]
    ELSE LET r == WeatherRow(raw_data[1])
         IN IF r.exc THEN [df |-> None, raised |-> TRUE]
            ELSE [df |-> Some(r.row), raised |-> FALSE]

\* the returned frame (None or the one-row frame) and whether the call raised
transform_weather_data(raw_data) ==
    IF ~Truthy(raw_data)
    THEN [df |-> None, raised |-> FALSE]
    ELSE LET r == WeatherRow(raw_data[1])
         IN IF r.exc THEN [df |-> None, raised |-> FALSE]
            ELSE [df |-> Some(r.row), raised |-> FALSE]

\* ------------------------------------------------- finance source payloads
\* A finance payload keeps the order of its keys: a sequence of <<key, value>>.
\* A date string is [y, m, d, h]; a numeric string "i.ff" is <<i, ff>>.
SymbolInputs == {"aapl"}

\* str.upper() on the symbols the model uses
Upper == [s \in SymbolInputs |-> "AAPL"]

Intervals == {"Daily", "Intraday"}

Bar1 == ("1. open" :> <<185, 50>>) @@ ("2. high" :> <<187, 0>>)
            @@ ("3. low" :> <<184, 25>>) @@ ("4. close" :> <<186, 75>>)
            @@ ("5. volume" :> <<1000, 50>>)

\* an entry without "5. volume"
Bar2 == ("1. open" :> <<183, 0>>) @@ ("2. high" :> <<186, 0>>)
            @@ ("3. low" :> <<182, 10>>) @@ ("4. close" :> <<185, 40>>)

\* newest entry first, as the source sends it
F_series == << <<"Meta Data", <<>> >>,
               <<"Time Series (Daily)",
                 << <<[y |-> 2024, m |-> 1, d |-> 3, h |-> 0], Bar1>>,
                    <<[y |-> 2024, m |-> 1, d |-> 2, h |-> 0], Bar2>> >> >> >>

\* a rate-limit answer: valid JSON without a time series
F_note == << <<"Note", <<>> >> >>

FinancePayloads == {F_series, F_note}

FinanceResponses ==
    {[kind |-> "ok", data |-> p] : p \in FinancePayloads}
        \cup {[kind |-> "raise", data |-> <<>>]}

\* ---------------------------------------------------- AlphaVantageClient
\* requests.get(...).json(): the decoded body, or the exception of a failed
\* request or of a body that is not JSON
fetch_daily(symbol, resp) ==
    [ret |-> IF resp.kind = "ok" THEN Some(resp.data) ELSE None,
     raised |-> resp.kind # "ok", endpoints |-> <<"TIME_SERIES_DAILY">>]

fetch_intraday(symbol, resp) ==
    [ret |-> IF resp.kind = "ok" THEN Some(resp.data) ELSE None,
     raised |-> resp.kind # "ok", endpoints |-> <<"TIME_SERIES_INTRADAY">>]

\* str.lower() of the two selectbox values
LowerInterval(interval) == IF interval = "Intraday" THEN "intraday" ELSE "daily"

\* get_cached_stock_data whose branches fall through: intraday, then daily
get_cached_stock_data_body_both(symbol, interval, resp) ==
    LET r == fetch_daily(symbol, resp)
        extra == IF LowerInterval(interval) = "intraday"
                 THEN fetch_intraday(symbol, resp).endpoints ELSE <<>>
    IN [ret |-> IF r.raised THEN None ELSE r.ret, endpoints |-> extra \o r.endpoints,
        calls |-> 1]

\* body of get_cached_stock_data: any exception becomes None
get_cached_stock_data_body(symbol, interval, resp) ==
    LET r == IF LowerInterval(interval) = "intraday"
             THEN fetch_intraday(symbol, resp)
             ELSE fetch_daily(symbol, resp)
    IN [ret |-> IF r.raised THEN None ELSE r.ret, endpoints |-> r.endpoints,
        calls |-> 1]

\* get_cached_stock_data(symbol, interval) under @st.cache_data(ttl=300)
get_cached_stock_data(cache, symbol, interval, t, resp) ==
    LET key == <<symbol, interval>>
    IN IF CacheDataLive(cache, key, t)
       THEN [ret |-> cache[key][1].value, cache |-> cache,
             endpoints |-> <<>>, calls |-> 0]
       ELSE LET b == get_cached_stock_data_body(symbol, interval, resp)
            IN [ret |-> b.ret,
                cache |-> [cache EXCEPT ![key] = Some([value |-> b.ret, ts |-> t])],
                endpoints |-> b.endpoints, calls |-> b.calls]

\* ------------------------------------------------- transform_finance_data
\* "Time Series" in k, over the keys the source sends
HasTimeSeries(k) == k \in {"Time Series (Daily)", "Time Series (60min)"}

\* the first key of the payload that contains "Time Series", if any
FirstTimeSeries(raw) ==
    LET hits == {i \in 1..Len(raw) : HasTimeSeries(raw[i][1])}
    IN IF hits = {} THEN None
       ELSE Some(CHOOSE i \in hits : \A j \in hits : i <= j)

\* pd.to_datetime: an instant, here in hours on a 31-day calendar grid
to_datetime(s) == ((s.y * 12 + s.m) * 31 + s.d) * 24 + s.h

\* float(metrics.get(label, 0)), in hundredths
FloatOf(metrics, label) ==
    IF label \in DOMAIN metrics THEN metrics[label][1] * 100 + metrics[label][2] ELSE 0

\* int(round(float(...))) in place of the truncation
IntOf_round(hundredths) == (hundredths + 50) \div 100

\* int(float(...)): truncation of a non-negative value
IntOf(hundredths) == hundredths \div 100

FinanceRecord(symbol, entry) ==
    [symbol |-> symbol,
     datetime |-> to_datetime(entry[1]),
     open |-> FloatOf(entry[2], "1. open"),
     high |-> FloatOf(entry[2], "2. high"),
     low |-> FloatOf(entry[2], "3. low"),
     close |-> FloatOf(entry[2], "4. close"),
     volume |-> IntOf(FloatOf(entry[2], "5. volume"))]

\* insert r after every record whose datetime is not later
RECURSIVE InsertByDatetime(_, _)
InsertByDatetime(sorted, r) ==
    IF sorted = <<>> THEN <<r>>
    ELSE IF Head(sorted).datetime <= r.datetime
    THEN <<Head(sorted)>> \o InsertByDatetime(Tail(sorted), r)
    ELSE <<r>> \o sorted

\* df.sort_values("datetime")
RECURSIVE sort_values(_)
sort_values(records) ==
    IF records = <<>> THEN <<>>
    ELSE InsertByDatetime(sort_values(SubSeq(records, 1, Len(records) - 1)),
                          records[Len(records)])

\* transform_finance_data without the ts_key test and the try block: the
\* lookup of a key that is not there leaves the function
transform_finance_data_notry(raw_data, symbol) ==
    IF ~TruthySeq(raw_data)
    THEN [df |-> None, raised |-> FALSE]
    ELSE LET raw == raw_data[1]
             ts_key == FirstTimeSeries(raw)
         IN IF ts_key = None
            THEN [df |-> None, raised |-> TRUE]
            ELSE LET series == raw[ts_key[1]][2]
                     records == [i \in 1..Len(series) |-> FinanceRecord(symbol, series[i])]
                 IN IF records = <<>>
                    THEN [df |-> None, raised |-> TRUE]
                    ELSE [df |-> Some(sort_values(records)), raised |-> FALSE]

\* the returned frame (None or the sorted rows) and whether the call raised;
\* a frame built from no record has no "datetime" column and sorting it raises
transform_finance_data(raw_data, symbol) ==
    IF ~TruthySeq(raw_data)
    THEN [df |-> None, raised |-> FALSE]
    ELSE LET raw == raw_data[1]
             ts_key == FirstTimeSeries(raw)
         IN IF ts_key = None
            THEN [df |-> None, raised |-> FALSE]
            ELSE LET series == raw[ts_key[1]][2]
                     records == [i \in 1..Len(series) |-> FinanceRecord(symbol, series[i])]
                 IN IF records = <<>>
                    THEN [df |-> None, raised |-> FALSE]
                    ELSE [df |-> Some(sort_values(records)), raised |-> FALSE]

\* ------------------------------------------------------------------ state
VARIABLES
    now,            \* wall clock, seconds
    cacheFiles,     \* cache/weather_<city>.json: None or [content, mtime]
    weatherCache,   \* st.cache_data of get_cached_weather: city -> None or [value, ts]
    stockCache,     \* st.cache_data of get_cached_stock_data: <<symbol, interval>> -> ...
    session_state,  \* st.session_state: dict of the keys that are set
    last,           \* what the most recent button press did
    callers,        \* concurrent calls of fetch_current_weather, one per caller
    probe           \* one application of a transformer to one input

vars == <<now, cacheFiles, weatherCache, stockCache, session_state, last,
          callers, probe>>

StockKeys == {<<Upper[s], i>> : s \in SymbolInputs, i \in Intervals}

Callers == 1..NumCallers

NoAction == [op |-> "none", key |-> "", calls |-> 0, endpoints |-> <<>>,
             transforms |-> 0, ret |-> None, message |-> "none",
             entryAge |-> None, fileAge |-> None]

IdleCaller == [pc |-> "idle", city |-> "", data |-> EmptyDict, ret |-> None,
               raised |-> FALSE, failed |-> FALSE, read |-> <<>>]

IdleProbe == [fn |-> "none", arg |-> None, done |-> FALSE, df |-> None,
              raised |-> FALSE]

Init ==
    /\ now = 0
    /\ cacheFiles = [f \in CacheFileNames |-> None]
    /\ weatherCache = [c \in Cities |-> None]
    /\ stockCache = [k \in StockKeys |-> None]
    /\ session_state = EmptyDict
    /\ last = NoAction
    /\ callers = [p \in Callers |-> IdleCaller]
    /\ probe = IdleProbe

\* time passes; nothing else happens
Tick ==
    /\ \E d \in Deltas : now + d <= MaxNow /\ now' = now + d
    /\ UNCHANGED <<cacheFiles, weatherCache, stockCache, session_state, last,
                   callers, probe>>

\* dict with key k set to v
SetKey(d, k, v) == [x \in DOMAIN d \cup {k} |-> IF x = k THEN v ELSE d[x]]

\* weather_dashboard that stores the city before it looks at the fetch result
weather_dashboard_cityfirst(city, resp) ==
    LET got == get_cached_weather(weatherCache, cacheFiles, city, now, resp)
        tr == transform_weather_data(got.ret)
        fetched == Truthy(got.ret)
        loaded == fetched /\ tr.df # None
    IN /\ weatherCache' = got.cache
       /\ cacheFiles' = got.files
       /\ session_state' =
            IF loaded
            THEN SetKey(SetKey(session_state, "weather_data", tr.df[1]),
                        "weather_city", city)
            ELSE SetKey(session_state, "weather_city", city)
       /\ last' = [op |-> "weather", key |-> city, calls |-> got.calls,
                   endpoints |-> IF got.http = 1 THEN <<"weather">> ELSE <<>>,
                   transforms |-> IF fetched THEN 1 ELSE 0,
                   ret |-> got.ret,
                   message |-> IF loaded THEN "success"
                               ELSE IF fetched THEN "transform_failed"
                               ELSE "fetch_failed",
                   entryAge |-> IF weatherCache[city] = None THEN None
                                ELSE Some(now - weatherCache[city][1].ts),
                   fileAge |-> IF got.calls = 0 \/ cacheFiles[Lower[city]] = None
                               THEN None
                               ELSE Some(now - cacheFiles[Lower[city]][1].mtime)]
       /\ UNCHANGED <<now, stockCache, callers, probe>>

\* weather_dashboard: the "Get Weather Data" button is pressed with the text
\* input holding city
weather_dashboard(city, resp) ==
    LET got == get_cached_weather(weatherCache, cacheFiles, city, now, resp)
        tr == transform_weather_data(got.ret)
        fetched == Truthy(got.ret)
        loaded == fetched /\ tr.df # None
    IN /\ weatherCache' = got.cache
       /\ cacheFiles' = got.files
       /\ session_state' =
            IF loaded
            THEN SetKey(SetKey(session_state, "weather_data", tr.df[1]),
                        "weather_city", city)
            ELSE session_state
       /\ last' = [op |-> "weather", key |-> city, calls |-> got.calls,
                   endpoints |-> IF got.http = 1 THEN <<"weather">> ELSE <<>>,
                   transforms |-> IF fetched THEN 1 ELSE 0,
                   ret |-> got.ret,
                   message |-> IF loaded THEN "success"
                               ELSE IF fetched THEN "transform_failed"
                               ELSE "fetch_failed",
                   entryAge |-> IF weatherCache[city] = None THEN None
                                ELSE Some(now - weatherCache[city][1].ts),
                   fileAge |-> IF got.calls = 0 \/ cacheFiles[Lower[city]] = None
                               THEN None
                               ELSE Some(now - cacheFiles[Lower[city]][1].mtime)]
       /\ UNCHANGED <<now, stockCache, callers, probe>>

\* finance_dashboard that keeps the text of the input box, not the
\* upper-cased symbol, as finance_symbol
finance_dashboard_rawsymbol(input, interval, resp) ==
    LET symbol == Upper[input]
        got == get_cached_stock_data(stockCache, symbol, interval, now, resp)
        fetched == TruthySeq(got.ret)
        tr == transform_finance_data(got.ret, symbol)
        loaded == fetched /\ tr.df # None
    IN /\ stockCache' = got.cache
       /\ session_state' =
            IF loaded
            THEN SetKey(SetKey(session_state, "finance_data", tr.df[1]),
                        "finance_symbol", input)
            ELSE session_state
       /\ last' = [op |-> "finance", key |-> interval, calls |-> got.calls,
                   endpoints |-> got.endpoints,
                   transforms |-> IF fetched THEN 1 ELSE 0,
                   ret |-> got.ret,
                   message |-> IF loaded THEN "success"
                               ELSE IF fetched THEN "transform_failed"
                               ELSE "fetch_failed",
                   entryAge |-> IF stockCache[<<symbol, interval>>] = None THEN None
                                ELSE Some(now - stockCache[<<symbol, interval>>][1].ts),
                   fileAge |-> None]
       /\ UNCHANGED <<now, cacheFiles, weatherCache, callers, probe>>

\* finance_dashboard: the "Get Stock Data" button is pressed with the text
\* input holding input and the selectbox holding interval
finance_dashboard(input, interval, resp) ==
    LET symbol == Upper[input]
        got == get_cached_stock_data(stockCache, symbol, interval, now, resp)
        fetched == TruthySeq(got.ret)
        tr == transform_finance_data(got.ret, symbol)
        loaded == fetched /\ tr.df # None
    IN /\ stockCache' = got.cache
       /\ session_state' =
            IF loaded
            THEN SetKey(SetKey(session_state, "finance_data", tr.df[1]),
                        "finance_symbol", symbol)
            ELSE session_state
       /\ last' = [op |-> "finance", key |-> interval, calls |-> got.calls,
                   endpoints |-> got.endpoints,
                   transforms |-> IF fetched THEN 1 ELSE 0,
                   ret |-> got.ret,
                   message |-> IF loaded THEN "success"
                               ELSE IF fetched THEN "transform_failed"
                               ELSE "fetch_failed",
                   entryAge |-> IF stockCache[<<symbol, interval>>] = None THEN None
                                ELSE Some(now - stockCache[<<symbol, interval>>][1].ts),
                   fileAge |-> None]
       /\ UNCHANGED <<now, cacheFiles, weatherCache, callers, probe>>

\* the dashboard: the clock and the two buttons
Next ==
    \/ Tick
    \/ \E c \in DashCities, r \in WeatherResponses : weather_dashboard(c, r)
    \/ \E s \in SymbolInputs, i \in Intervals, r \in FinanceResponses :
          finance_dashboard(s, i, r)

Spec == Init /\ [][Next]_vars

\* the weather page alone, the city typed in either spelling
NextWeather ==
    \/ Tick
    \/ \E c \in Cities, r \in WeatherResponses : weather_dashboard(c, r)

SpecWeather == Init /\ [][NextWeather]_vars

\* ------------------------------------- concurrent fetch_current_weather
\* what the source answers in the concurrent runs: a long body, the shortest
\* body, an error status
ConcResponses ==
    {[kind |-> "ok", data |-> W_full], [kind |-> "ok", data |-> EmptyDict],
     [kind |-> "http_error", data |-> EmptyDict]}

\* a write of text at offset 0 of a file opened without O_APPEND: bytes behind
\* the written ones stay
WriteAt0(content, text) == text \o SubSeq(content, Len(text) + 1, Len(content))

OtherVarsConc == <<now, weatherCache, stockCache, session_state, last, probe>>

\* a caller enters fetch_current_weather(city)
Call(p, city) ==
    /\ callers[p].pc = "idle"
    /\ callers' = [callers EXCEPT ![p].pc = "exists", ![p].city = city]
    /\ UNCHANGED <<cacheFiles>>
    /\ UNCHANGED OtherVarsConc

\* if cache_file.exists()
Exists(p) ==
    /\ callers[p].pc = "exists"
    /\ callers' = [callers EXCEPT ![p].pc =
                     IF cacheFiles[Lower[callers[p].city]] # None
                     THEN "stat" ELSE "request"]
    /\ UNCHANGED <<cacheFiles>>
    /\ UNCHANGED OtherVarsConc

\* the mtime of the file against the ten minutes
Stat(p) ==
    /\ callers[p].pc = "stat"
    /\ callers' = [callers EXCEPT ![p].pc =
                     IF now - cacheFiles[Lower[callers[p].city]][1].mtime < FILE_TTL
                     THEN "load" ELSE "request"]
    /\ UNCHANGED <<cacheFiles>>
    /\ UNCHANGED OtherVarsConc

\* open(cache_file) and json.load: reads whatever the file holds now; a decode
\* error is outside the try block and leaves the function
Load(p) ==
    /\ callers[p].pc = "load"
    /\ LET text == cacheFiles[Lower[callers[p].city]][1].content
           r == json_load(text)
       IN callers' = [callers EXCEPT ![p].pc = "done",
                                     ![p].read = Some(text),
                                     ![p].raised = r.error,
                                     ![p].ret = IF r.error THEN None ELSE Some(r.data)]
    /\ UNCHANGED <<cacheFiles>>
    /\ UNCHANGED OtherVarsConc

\* requests.get, raise_for_status, response.json()
Request(p, resp) ==
    /\ callers[p].pc = "request"
    /\ callers' = IF resp.kind = "ok"
                  THEN [callers EXCEPT ![p].pc = "open", ![p].data = resp.data]
                  ELSE [callers EXCEPT ![p].pc = "done", ![p].failed = TRUE]
    /\ UNCHANGED <<cacheFiles>>
    /\ UNCHANGED OtherVarsConc

\* open(cache_file, "w"): the file exists and is empty from here on
OpenW(p) ==
    /\ callers[p].pc = "open"
    /\ cacheFiles' = [cacheFiles EXCEPT ![Lower[callers[p].city]] =
                        Some([content |-> <<>>, mtime |-> now])]
    /\ callers' = [callers EXCEPT ![p].pc = "write"]
    /\ UNCHANGED OtherVarsConc

\* json.dump and the close that flushes the buffered text at offset 0
WriteClose(p) ==
    /\ callers[p].pc = "write"
    /\ LET f == Lower[callers[p].city]
       IN cacheFiles' = [cacheFiles EXCEPT ![f] =
                           Some([content |-> WriteAt0(cacheFiles[f][1].content,
                                                      json_dump(callers[p].data)),
                                 mtime |-> now])]
    /\ callers' = [callers EXCEPT ![p].pc = "done", ![p].ret = Some(callers[p].data)]
    /\ UNCHANGED OtherVarsConc

\* several users of one instance inside fetch_current_weather at once
NextConc ==
    \/ Tick
    \/ \E p \in Callers, c \in Cities : Call(p, c)
    \/ \E p \in Callers : Exists(p)
    \/ \E p \in Callers : Stat(p)
    \/ \E p \in Callers : Load(p)
    \/ \E p \in Callers, r \in ConcResponses : Request(p, r)
    \/ \E p \in Callers : OpenW(p)
    \/ \E p \in Callers : WriteClose(p)

SpecConc == Init /\ [][NextConc]_vars

\* --------------------------------------------- the transformers by themselves
TempKeys == {"temp", "feels_like", "temp_min", "temp_max"}

KelvinValues == {0, 29015}

\* the dict with key k when the optional value is there, else {}
Part(k, opt) == IF opt = None THEN EmptyDict ELSE (k :> opt[1])

MainDicts == {[k \in K |-> f[k]] : K \in SUBSET TempKeys, f \in [TempKeys -> KelvinValues]}

WeatherDicts ==
    {Part("name", n) @@ Part("weather", w) @@ Part("main", m) @@ Part("dt", t) :
        n \in {None, Some("London")},
        w \in {None, Some(<<>>), Some(<<[description |-> "clear sky"]>>)},
        m \in {None} \cup {Some(x) : x \in MainDicts},
        t \in {None, Some(1700000000)}}

WeatherInputs == {None} \cup {Some(d) : d \in WeatherDicts}

InitProbe ==
    /\ now = 0
    /\ cacheFiles = [f \in CacheFileNames |-> None]
    /\ weatherCache = [c \in Cities |-> None]
    /\ stockCache = [k \in StockKeys |-> None]
    /\ session_state = EmptyDict
    /\ last = NoAction
    /\ callers = [p \in Callers |-> IdleCaller]
    /\ probe \in {[IdleProbe EXCEPT !.fn = "transform_weather_data", !.arg = a] :
                    a \in WeatherInputs}

\* transform_weather_data(raw_data) is called on the drawn input
ApplyTransformWeather ==
    /\ probe.fn = "transform_weather_data"
    /\ ~probe.done
    /\ LET r == transform_weather_data(probe.arg)
       IN probe' = [probe EXCEPT !.done = TRUE, !.df = r.df, !.raised = r.raised]
    /\ UNCHANGED <<now, cacheFiles, weatherCache, stockCache, session_state, last,
                   callers>>

NextProbe == ApplyTransformWeather

SpecProbe == InitProbe /\ [][NextProbe]_vars

\* ------------------------------------------ transform_finance_data by itself
MaxEntries == 3

ProbeSymbols == {"AAPL", "MSFT"}

\* date strings, the last one in the next month
ProbeDates == {[y |-> 2024, m |-> 1, d |-> 30, h |-> 0],
               [y |-> 2024, m |-> 1, d |-> 31, h |-> 0],
               [y |-> 2024, m |-> 2, d |-> 1, h |-> 0],
               [y |-> 2024, m |-> 2, d |-> 2, h |-> 0]}

\* an entry with a zero close and without "1. open"
Bar3 == ("2. high" :> <<0, 0>>) @@ ("3. low" :> <<0, 0>>)
            @@ ("4. close" :> <<0, 0>>) @@ ("5. volume" :> <<7, 99>>)

ProbeBars == {Bar1, Bar2, Bar3}

\* the time series a payload can hold: up to MaxEntries entries in any order,
\* their date strings distinct as the keys of a dict are
ProbeSeries ==
    UNION {{s \in [1..n -> ProbeDates \X ProbeBars] :
              \A i, j \in 1..n : i # j => s[i][1] # s[j][1]} :
           n \in 0..MaxEntries}

\* the payloads: nothing, {}, an answer without a series, and a series under
\* the daily or the intraday key, alone, behind the meta data, or in front of
\* a second series
FinanceInputs ==
    {None, Some(<<>>), Some(F_note), Some(<< <<"Meta Data", <<>> >>, <<"Note", <<>> >> >>)}
        \cup {Some(<< <<k, s>> >>) : k \in {"Time Series (Daily)", "Time Series (60min)"},
                                       s \in ProbeSeries}
        \cup {Some(<< <<"Meta Data", <<>> >>, <<"Time Series (Daily)", s>> >>) :
                  s \in ProbeSeries}
        \cup {Some(<< <<"Time Series (60min)", s>>, F_series[2] >>) : s \in ProbeSeries}

InitFinanceProbe ==
    /\ now = 0
    /\ cacheFiles = [f \in CacheFileNames |-> None]
    /\ weatherCache = [c \in Cities |-> None]
    /\ stockCache = [k \in StockKeys |-> None]
    /\ session_state = EmptyDict
    /\ last = NoAction
    /\ callers = [p \in Callers |-> IdleCaller]
    /\ probe \in {[IdleProbe EXCEPT !.fn = "transform_finance_data", !.arg = <<a, sym>>] :
                    a \in FinanceInputs, sym \in ProbeSymbols}

\* transform_finance_data(raw_data, symbol) is called on the drawn input
ApplyTransformFinance ==
    /\ probe.fn = "transform_finance_data"
    /\ ~probe.done
    /\ LET r == transform_finance_data(probe.arg[1], probe.arg[2])
       IN probe' = [probe EXCEPT !.done = TRUE, !.df = r.df, !.raised = r.raised]
    /\ UNCHANGED <<now, cacheFiles, weatherCache, stockCache, session_state, last,
                   callers>>

NextFinanceProbe == ApplyTransformFinance

SpecFinanceProbe == InitFinanceProbe /\ [][NextFinanceProbe]_vars

\* ------------------------------------------------- the derived stock metrics
\* plot_stock_advanced and combined_dashboard read the frame kept in the
\* session, which transform_finance_data left sorted by datetime.  Only the
\* columns the metrics read are kept: datetime and close (hundredths).  A
\* float that may be NaN or infinite is [kind |-> "nan"], [kind |-> "inf"]
\* or the exact fraction [kind |-> "num", num |-> a, den |-> b].

MaxSeriesLen == 21

ClosePatterns == {"flat", "rising", "zero", "zeros"}

\* the close of the i-th point of a pattern
CloseAt(pattern, i) ==
    CASE pattern = "flat" -> 10000
      [] pattern = "rising" -> 10000 + 100 * i
      [] pattern = "zero" -> IF i = 2 THEN 0 ELSE 10000 + 100 * i
      [] pattern = "zeros" -> IF i \in {2, 3} THEN 0 ELSE 10000 - 100 * i

PriceFrames ==
    {[i \in 1..n |-> [datetime |-> 24 * i, close |-> CloseAt(pat, i)]] :
        n \in 0..MaxSeriesLen, pat \in ClosePatterns}

NaN == [kind |-> "nan"]

\* the sum of closes[lo..hi]
RECURSIVE SumCloses(_, _, _)
SumCloses(df, lo, hi) ==
    IF hi < lo THEN 0 ELSE df[hi].close + SumCloses(df, lo, hi - 1)

\* rolling(window=w, min_periods=1).mean(): the mean of the points so far
rolling_mean_minperiods1(df, w) ==
    [i \in 1..Len(df) |->
        IF i < w THEN [kind |-> "num", num |-> SumCloses(df, 1, i), den |-> i]
        ELSE [kind |-> "num", num |-> SumCloses(df, i - w + 1, i), den |-> w]]

\* df['close'].rolling(window=w).mean(): min_periods is the window
rolling_mean(df, w) ==
    [i \in 1..Len(df) |->
        IF i < w THEN NaN
        ELSE [kind |-> "num", num |-> SumCloses(df, i - w + 1, i), den |-> w]]

\* df['close'].pct_change() * 100: close / close.shift() - 1 in floats, so
\* x / 0 is infinite for x # 0 and NaN for 0 / 0
pct_change(df) ==
    [i \in 1..Len(df) |->
        IF i = 1 THEN NaN
        ELSE IF df[i - 1].close # 0
        THEN [kind |-> "num", num |-> (df[i].close - df[i - 1].close) * 100,
              den |-> df[i - 1].close]
        ELSE IF df[i].close = 0 THEN NaN
        ELSE [kind |-> "inf"]]

\* Series.dropna(): the values that are not NaN, in order
RECURSIVE dropna(_)
dropna(series) ==
    IF series = <<>> THEN <<>>
    ELSE IF Head(series).kind = "nan" THEN dropna(Tail(series))
    ELSE <<Head(series)>> \o dropna(Tail(series))

MetricFns == {"plot_stock_advanced", "combined_dashboard"}

InitMetrics ==
    /\ now = 0
    /\ cacheFiles = [f \in CacheFileNames |-> None]
    /\ weatherCache = [c \in Cities |-> None]
    /\ stockCache = [k \in StockKeys |-> None]
    /\ session_state = EmptyDict
    /\ last = NoAction
    /\ callers = [p \in Callers |-> IdleCaller]
    /\ probe \in {[IdleProbe EXCEPT !.fn = f, !.arg = df] :
                    f \in MetricFns, df \in PriceFrames}

\* tabs 2 and 3 of plot_stock_advanced(df, symbol)
plot_stock_advanced ==
    /\ probe.fn = "plot_stock_advanced"
    /\ ~probe.done
    /\ LET df == sort_values(probe.arg)
           MA_7 == rolling_mean(df, 7)
           MA_20 == rolling_mean(df, 20)
           daily_return == pct_change(df)
       IN probe' = [probe EXCEPT
              !.done = TRUE,
              !.df = Some([frame |-> [i \in 1..Len(df) |->
                                        [datetime |-> df[i].datetime,
                                         close |-> df[i].close,
                                         MA_7 |-> MA_7[i],
                                         MA_20 |-> MA_20[i],
                                         daily_return |-> daily_return[i]]],
                           returns |-> dropna(daily_return)])]
    /\ UNCHANGED <<now, cacheFiles, weatherCache, stockCache, session_state,
                   last, callers>>

\* the financial overview of combined_dashboard: the column is added to the
\* frame of the session in place
combined_dashboard ==
    /\ probe.fn = "combined_dashboard"
    /\ ~probe.done
    /\ LET finance_df == probe.arg
           daily_return == pct_change(finance_df)
       IN probe' = [probe EXCEPT
              !.done = TRUE,
              !.df = Some([frame |-> [i \in 1..Len(finance_df) |->
                                        [datetime |-> finance_df[i].datetime,
                                         close |-> finance_df[i].close,
                                         daily_return |-> daily_return[i]]],
                           returns |-> dropna(daily_return)])]
    /\ UNCHANGED <<now, cacheFiles, weatherCache, stockCache, session_state,
                   last, callers>>

NextMetrics == plot_stock_advanced \/ combined_dashboard

SpecMetrics == InitMetrics /\ [][NextMetrics]_vars

\* ================================================================ claims
\* a step in which the weather button was pressed with city c
WeatherPress(c) == now' = now /\ last'.op = "weather" /\ last'.key = c

\* a step in which the stock button was pressed with interval i
FinancePress(i) == now' = now /\ last'.op = "finance" /\ last'.key = i

\* C1: when a valid (non-expired) cache entry exists for the key, a cached
\* fetch returns that entry's payload and no GET request goes out.  Both
\* layers: a dashboard entry younger than 300 s is returned without calling
\* the client; when the client is called, a cache file younger than 600 s is
\* decoded and returned without a request.
C1_ValidEntryNoFetch ==
    [][\A c \in Cities :
        WeatherPress(c) =>
            LET entry == weatherCache[c]
                file == cacheFiles[Lower[c]]
                live == entry # None /\ now - entry[1].ts < DASH_TTL
                fresh == file # None /\ now - file[1].mtime < FILE_TTL
            IN /\ live => /\ last'.ret = entry[1].value
                          /\ last'.calls = 0
                          /\ last'.endpoints = <<>>
               /\ (~live /\ fresh) =>
                          /\ last'.ret = Some(json_load(file[1].content).data)
                          /\ last'.endpoints = <<>>]_vars

\* C1 witness: the client was called and served the payload of a fresh file
C1_Witness ==
    /\ last.op = "weather"
    /\ last.calls = 1
    /\ last.fileAge # None
    /\ last.endpoints = <<>>
    /\ Truthy(last.ret)

\* C2: on a cache miss the fetch function is invoked; a success is stored as
\* (key, payload, now) and returned; a failure is handed to the caller and
\* nothing is cached for the key, so that the next call for the key asks the
\* source again, on the weather and on the finance path alike.
C2_FailureNotCached ==
    [][/\ \A c \in Cities :
            WeatherPress(c) =>
                LET entry == weatherCache[c]
                    live == entry # None /\ now - entry[1].ts < DASH_TTL
                IN ~live =>
                     /\ last'.calls = 1
                     /\ last'.ret # None =>
                            weatherCache'[c] = Some([value |-> last'.ret, ts |-> now])
                     /\ last'.ret = None =>
                            ~(/\ weatherCache'[c] # None
                              /\ now - weatherCache'[c][1].ts < DASH_TTL)
       /\ \A i \in Intervals :
            FinancePress(i) =>
                LET entry == stockCache[<<"AAPL", i>>]
                    live == entry # None /\ now - entry[1].ts < DASH_TTL
                IN ~live =>
                     /\ last'.calls = 1
                     /\ last'.ret # None =>
                            stockCache'[<<"AAPL", i>>] = Some([value |-> last'.ret, ts |-> now])
                     /\ last'.ret = None =>
                            ~(/\ stockCache'[<<"AAPL", i>>] # None
                              /\ now - stockCache'[<<"AAPL", i>>][1].ts < DASH_TTL)]_vars

\* C3: a cache entry is valid iff now - fetch_timestamp < ttl of its source,
\* strictly (an entry as old as the ttl is stale), and staleness is decided
\* only when the entry is read: the cache file is served iff it is younger
\* than 600 s, the dashboard entry iff it is younger than 300 s, and a step
\* of the clock changes and removes no entry.
C3_ValidIffYoungerThanTtl ==
    [][/\ \A c \in Cities :
            WeatherPress(c) =>
                LET entry == weatherCache[c]
                    file == cacheFiles[Lower[c]]
                IN /\ entry # None =>
                        (last'.calls = 0 <=> now - entry[1].ts < DASH_TTL)
                   /\ (last'.calls = 1 /\ file # None) =>
                        (last'.endpoints = <<>> <=> now - file[1].mtime < FILE_TTL)
       /\ now' # now => /\ cacheFiles' = cacheFiles
                        /\ weatherCache' = weatherCache
                        /\ stockCache' = stockCache]_vars

\* C3 witness: a file exactly 600 s old was found stale and the source asked
C3_Witness ==
    /\ last.op = "weather"
    /\ last.fileAge = Some(FILE_TTL)
    /\ last.endpoints # <<>>

C5_ReplacedNotMerged ==
    [][/\ \A f \in CacheFileNames :
            cacheFiles'[f] # cacheFiles[f] =>
                \E c \in Cities :
                    /\ Lower[c] = f
                    /\ WeatherPress(c)
                    /\ ~(weatherCache[c] # None /\ now - weatherCache[c][1].ts < DASH_TTL)
                    /\ ~(cacheFiles[f] # None /\ now - cacheFiles[f][1].mtime < FILE_TTL)
                    /\ last'.endpoints # <<>>
                    /\ last'.ret # None
                    /\ cacheFiles'[f] # None
                    /\ cacheFiles'[f][1].mtime = now
                    /\ json_load(cacheFiles'[f][1].content) =
                            [error |-> FALSE, data |-> last'.ret[1]]
       /\ \A c \in Cities :
            weatherCache'[c] # weatherCache[c] =>
                /\ WeatherPress(c)
                /\ ~(weatherCache[c] # None /\ now - weatherCache[c][1].ts < DASH_TTL)
                /\ weatherCache'[c] = Some([value |-> last'.ret, ts |-> now])]_vars

\* C5 witness: a stale file was refreshed with a newly fetched payload
C5_Witness ==
    /\ last.op = "weather"
    /\ last.fileAge # None
    /\ last.endpoints # <<>>
    /\ last.ret # None
    /\ cacheFiles[Lower[last.key]] = Some([content |-> json_dump(last.ret[1]), mtime |-> now])

\* C6: when a dashboard fetch action fails (the fetch returns nothing, or the
\* transform returns null), weather_data, weather_city, finance_data and
\* finance_symbol stay as they were and an error message is shown; the
\* session data is overwritten only by a successful fetch followed by a
\* non-null transform.
C6_FailureLeavesSession ==
    [][/\ \A c \in Cities :
            WeatherPress(c) =>
                LET failed == \/ ~Truthy(last'.ret)
                              \/ transform_weather_data(last'.ret).df = None
                IN /\ failed => /\ session_state' = session_state
                                /\ last'.message \in {"fetch_failed", "transform_failed"}
                   /\ session_state' # session_state => ~failed
       /\ \A i \in Intervals :
            FinancePress(i) =>
                LET failed == \/ ~TruthySeq(last'.ret)
                              \/ transform_finance_data(last'.ret, "AAPL").df = None
                IN /\ failed => /\ session_state' = session_state
                                /\ last'.message \in {"fetch_failed", "transform_failed"}
                   /\ session_state' # session_state => ~failed
       /\ now' # now => session_state' = session_state]_vars

\* C6 witness: a weather press failed in the transform while an earlier
\* observation was in the session
C6_Witness ==
    /\ last.op = "weather"
    /\ last.message = "transform_failed"
    /\ "weather_data" \in DOMAIN session_state
    /\ "weather_city" \in DOMAIN session_state

\* C7: when two or more users call the cached weather fetch for one key at
\* the same time, without locking, the interleavings cost duplicate fetches at
\* most: no caller reads a partly written or corrupt entry, no caller fails
\* unless its own request failed, and once all are done the file is one
\* complete payload.
C7_RacesOnlyDuplicateFetches ==
    /\ \A p \in Callers :
          callers[p].pc = "done" =>
              /\ callers[p].read # None => ~json_load(callers[p].read[1]).error
              /\ ~callers[p].raised
              /\ callers[p].ret = None => callers[p].failed
    /\ (\A p \in Callers : callers[p].pc \in {"idle", "done"}) =>
          \A f \in CacheFileNames :
              cacheFiles[f] # None => ~json_load(cacheFiles[f][1].content).error

\* C8: one press of a button sends at most one request and then runs at most
\* one transform, the transform only on what the fetch returned; nothing is
\* fetched without a press; a finance press that asks the source asks the one
\* endpoint its interval selects, daily or intraday, never both.
C8_OneFetchPerPress ==
    [][/\ \A c \in Cities :
            WeatherPress(c) =>
                /\ Len(last'.endpoints) <= 1
                /\ last'.transforms <= 1
                /\ last'.transforms = 1 => Truthy(last'.ret)
       /\ \A i \in Intervals :
            FinancePress(i) =>
                LET entry == stockCache[<<"AAPL", i>>]
                    live == entry # None /\ now - entry[1].ts < DASH_TTL
                IN /\ Len(last'.endpoints) <= 1
                   /\ last'.transforms <= 1
                   /\ last'.transforms = 1 => TruthySeq(last'.ret)
                   /\ ~live => last'.endpoints =
                                  IF i = "Intraday" THEN <<"TIME_SERIES_INTRADAY">>
                                  ELSE <<"TIME_SERIES_DAILY">>
                   /\ live => last'.endpoints = <<>>
       /\ now' # now => /\ last' = last
                        /\ cacheFiles' = cacheFiles
                        /\ weatherCache' = weatherCache
                        /\ stockCache' = stockCache]_vars

\* C8 witness: an intraday press that asked the source and transformed the answer
C8_Witness ==
    /\ last.op = "finance"
    /\ last.key = "Intraday"
    /\ last.endpoints = <<"TIME_SERIES_INTRADAY">>
    /\ last.transforms = 1

\* C9: transform_weather returns null and does not raise for an input that is
\* None, {} or lacks a required field (no dt, or an empty condition list).
C9_NullOnMalformedInput ==
    (probe.fn = "transform_weather_data" /\ probe.done) =>
        LET malformed == \/ probe.arg = None
                         \/ DOMAIN probe.arg[1] = {}
                         \/ "dt" \notin DOMAIN probe.arg[1]
                         \/ /\ "weather" \in DOMAIN probe.arg[1]
                            /\ Len(probe.arg[1]["weather"]) = 0
        IN /\ ~probe.raised
           /\ malformed => probe.df = None

\* C9 witness: the transform ran on a dict with fields but without dt
C9_Witness ==
    /\ probe.fn = "transform_weather_data"
    /\ probe.done
    /\ probe.arg # None
    /\ "main" \in DOMAIN probe.arg[1]
    /\ "dt" \notin DOMAIN probe.arg[1]
    /\ probe.df = None

\* C10: for a valid weather payload each of the four Celsius fields is its
\* Kelvin input minus 273.15 whenever the Kelvin value is present, the value
\* 0 included, and null exactly when the Kelvin value is missing.
C10_CelsiusForEveryPresentKelvin ==
    (probe.fn = "transform_weather_data" /\ probe.done /\ probe.df # None) =>
        LET main == GetDict(probe.arg[1], "main")
            row == probe.df[1]
            Agrees(k, cell) ==
                IF k \in DOMAIN main THEN cell = Some(main[k] - KELVIN_OFFSET)
                ELSE cell = None
        IN /\ Agrees("temp", row.temp_c)
           /\ Agrees("feels_like", row.feels_like_c)
           /\ Agrees("temp_min", row.temp_min_c)
           /\ Agrees("temp_max", row.temp_max_c)

\* the series under the first key of the probed payload that contains
\* "Time Series", None when there is no such key
ProbedSeries ==
    IF ~TruthySeq(probe.arg[1]) THEN None
    ELSE LET raw == probe.arg[1][1]
             hits == {i \in 1..Len(raw) :
                        raw[i][1] \in {"Time Series (Daily)", "Time Series (60min)"}}
         IN IF hits = {} THEN None
            ELSE Some(raw[CHOOSE i \in hits : \A j \in hits : i <= j][2])

\* C11: for a finance payload with no key containing "Time Series",
\* transform_finance returns null and does not raise; when there is such a
\* key, the series is built from the entries under that key only.
C11_NullWithoutTimeSeries ==
    (probe.fn = "transform_finance_data" /\ probe.done) =>
        /\ ~probe.raised
        /\ ProbedSeries = None => probe.df = None
        /\ (ProbedSeries # None /\ probe.df # None) =>
              {r.datetime : r \in {probe.df[1][i] : i \in 1..Len(probe.df[1])}} =
              {((e[1].y * 12 + e[1].m) * 31 + e[1].d) * 24 + e[1].h :
                  e \in {ProbedSeries[1][i] : i \in 1..Len(ProbedSeries[1])}}

\* C11 witness: a payload with keys but no time series gave null
C11_Witness ==
    /\ probe.fn = "transform_finance_data"
    /\ probe.done
    /\ TruthySeq(probe.arg[1])
    /\ ProbedSeries = None
    /\ probe.df = None

\* the rows of the probed result, as a set
ProbedRows == {probe.df[1][i] : i \in 1..Len(probe.df[1])}

\* the entries of the probed series, as a set
ProbedEntries == {ProbedSeries[1][i] : i \in 1..Len(ProbedSeries[1])}

\* the instant a date string stands for
InstantOf(date) == ((date.y * 12 + date.m) * 31 + date.d) * 24 + date.h

\* C12: for a finance payload whose time-series key holds N timestamp
\* entries, for every N >= 0, transform_finance returns a series of exactly N
\* points that all carry the given symbol and are sorted ascending by
\* timestamp, whatever the order of the entries in the payload.
C12_NPointsSortedForEveryN ==
    (probe.fn = "transform_finance_data" /\ probe.done /\ ProbedSeries # None) =>
        /\ probe.df # None
        /\ Len(probe.df[1]) = Len(ProbedSeries[1])
        /\ \A i \in 1..Len(probe.df[1]) : probe.df[1][i].symbol = probe.arg[2]
        /\ \A i, j \in 1..Len(probe.df[1]) :
              i < j => probe.df[1][i].datetime <= probe.df[1][j].datetime

\* C13: each point's open, high, low and close are the numbers parsed from
\* the strings under "1. open", "2. high", "3. low", "4. close", its volume the
\* number under "5. volume" cut to its integer part; a sub-key missing from an
\* entry makes that one field 0, and the point and the rest of the series are
\* returned all the same.
C13_FieldsParsedMissingIsZero ==
    (probe.fn = "transform_finance_data" /\ probe.done /\ ProbedSeries # None
        /\ Len(ProbedSeries[1]) > 0) =>
        /\ probe.df # None
        /\ Len(probe.df[1]) = Len(ProbedSeries[1])
        /\ \A e \in ProbedEntries :
              \E r \in ProbedRows :
                  LET Parsed(label) ==
                          IF label \in DOMAIN e[2]
                          THEN e[2][label][1] * 100 + e[2][label][2] ELSE 0
                  IN /\ r.datetime = InstantOf(e[1])
                     /\ r.open = Parsed("1. open")
                     /\ r.high = Parsed("2. high")
                     /\ r.low = Parsed("3. low")
                     /\ r.close = Parsed("4. close")
                     /\ r.volume = IF "5. volume" \in DOMAIN e[2]
                                   THEN e[2]["5. volume"][1] ELSE 0

\* C13 witness: a three-point series was returned, one entry without
\* "1. open" and with the volume "7.99", one without "5. volume"
C13_Witness ==
    /\ probe.fn = "transform_finance_data"
    /\ probe.done
    /\ probe.df # None
    /\ Len(probe.df[1]) = 3
    /\ \E r \in ProbedRows : r.open = 0 /\ r.volume = 7
    /\ \E r \in ProbedRows : r.open = 18300 /\ r.volume = 0

\* the sum of the w closes that end at row i of a frame
RECURSIVE TrailingCloses(_, _, _)
TrailingCloses(f, i, w) ==
    IF w = 0 THEN 0 ELSE f[i - w + 1].close + TrailingCloses(f, i, w - 1)

\* C14: the simple moving average of the close with window w over a series of
\* length n is undefined at every index when n < w, and when n >= w is defined
\* at exactly n - w + 1 indices (the first w - 1 undefined), each defined value
\* the mean of the trailing w closes in ascending timestamp order; for both
\* windows of the dashboard, 7 and 20.
C14_MovingAverageDefinedFromW ==
    (probe.fn = "plot_stock_advanced" /\ probe.done) =>
        LET f == probe.df[1].frame
            n == Len(probe.arg)
            Ascending == \A i, j \in 1..n : i < j => f[i].datetime < f[j].datetime
            SameRows == {[datetime |-> f[i].datetime, close |-> f[i].close] : i \in 1..n}
                            = {probe.arg[i] : i \in 1..n}
            Holds(w, col) ==
                LET defined == {i \in 1..n : f[i][col].kind # "nan"}
                IN /\ n < w => defined = {}
                   /\ n >= w => Cardinality(defined) = n - w + 1
                   /\ \A i \in 1..n : i < w => i \notin defined
                   /\ \A i \in defined :
                         /\ f[i][col].kind = "num"
                         /\ f[i][col].den = w
                         /\ f[i][col].num = TrailingCloses(f, i, w)
        IN Len(f) = n /\ Ascending /\ SameRows /\ Holds(7, "MA_7") /\ Holds(20, "MA_20")

\* C14 witness: a 21-point series got both averages, MA_7 defined at 15
\* indices with the first 6 undefined, MA_20 at the last 2 only
C14_Witness ==
    /\ probe.fn = "plot_stock_advanced"
    /\ probe.done
    /\ Len(probe.df[1].frame) = 21
    /\ probe.df[1].frame[6].MA_7.kind = "nan"
    /\ probe.df[1].frame[7].MA_7 = [kind |-> "num", num |-> 72800, den |-> 7]
    /\ probe.df[1].frame[19].MA_20.kind = "nan"
    /\ probe.df[1].frame[20].MA_20.kind = "num"

\* C15: the daily return is undefined for the first point, equals
\* (close[i] - close[i-1]) / close[i-1] * 100 for every later point whose
\* previous close is non-zero, and is undefined (not infinite) for every point
\* whose previous close is exactly 0; the defined-returns series that feeds the
\* summary statistics holds only finite values, n - 1 of them when no close
\* is 0.
C15_ReturnUndefinedAfterZeroClose ==
    (probe.fn \in MetricFns /\ probe.done) =>
        LET f == probe.df[1].frame
            returns == probe.df[1].returns
            n == Len(f)
        IN /\ n >= 1 => f[1].daily_return.kind = "nan"
           /\ \A i \in 2..n :
                 IF f[i - 1].close # 0
                 THEN /\ f[i].daily_return.kind = "num"
                      /\ f[i].daily_return.num = (f[i].close - f[i - 1].close) * 100
                      /\ f[i].daily_return.den = f[i - 1].close
                 ELSE f[i].daily_return.kind = "nan"
           /\ \A k \in 1..Len(returns) : returns[k].kind = "num"
           /\ (n >= 1 /\ \A i \in 1..n : f[i].close # 0) => Len(returns) = n - 1

\* C16: in fetch_current_weather the cache file of a city is written only
\* after the request returned a non-error status and its body was decoded:
\* after any sequence of calls the file, if present, holds a complete
\* successful response; a failed request leaves an existing file (fresh or
\* stale) unchanged and returns None, and a stale payload is never returned in
\* place of the failure.
C16_FileWrittenOnlyAfterSuccess ==
    [][/\ \A f \in CacheFileNames :
            cacheFiles'[f] # None =>
                /\ ~json_load(cacheFiles'[f][1].content).error
                /\ json_load(cacheFiles'[f][1].content).data \in WeatherPayloads
       /\ \A c \in Cities :
            WeatherPress(c) =>
                LET f == Lower[c]
                    written == /\ last'.ret # None
                               /\ cacheFiles' = [cacheFiles EXCEPT ![f] =
                                      Some([content |-> json_dump(last'.ret[1]),
                                            mtime |-> now])]
                    failed == last'.ret = None /\ cacheFiles' = cacheFiles
                IN /\ last'.endpoints # <<>> => (written \/ failed)
                   /\ last'.endpoints = <<>> => cacheFiles' = cacheFiles
                   /\ (last'.ret = None /\ last'.calls = 1) => last'.endpoints # <<>>
      ]_vars

\* C16 witness: a request was sent for a city whose file was stale and it
\* failed: None came back and the file is there as it was, with its old mtime
C16_Witness ==
    /\ last.op = "weather"
    /\ last.endpoints # <<>>
    /\ last.ret = None
    /\ last.fileAge # None
    /\ last.fileAge[1] >= FILE_TTL
    /\ cacheFiles[Lower[last.key]] # None
    /\ cacheFiles[Lower[last.key]][1].mtime = now - last.fileAge[1]
    /\ ~json_load(cacheFiles[Lower[last.key]][1].content).error

\* the value under key k of a session state, None when the key is absent
SessionValue(ss, k) == IF k \in DOMAIN ss THEN <<ss[k]>> ELSE <<>>

====
